---- MODULE Spec2Model ----
(***************************************************************************)
(* Span lifecycle of OTelGroupCallMembership (element-call, src/otel).      *)
(*                                                                         *)
(* The repository holds two revisions of the class:                        *)
(*   RevStats  src/unnamed/part_001 (with the stats-report and speaking     *)
(*             spans; onLeaveCall forgets the span and the context)         *)
(*   RevPlain  src/src/otel/OTelGroupCallMembership.ts (no stats, no        *)
(*             speaking spans; onLeaveCall keeps the span and the context)  *)
(* The variable revision says which of the two a behaviour runs; it never   *)
(* changes.  The tracer is modelled by the log spans of every span it has   *)
(* started: a span's identity is its index in the log, 0 is undefined.      *)
(***************************************************************************)
EXTENDS Integers, Sequences, FiniteSets, TLC

\* ---- bounds of the model ----
MaxSpans == 3
MaxEnds == 2
MaxCalls == 2
MaxNest == 12

RevStats == "part_001"
RevPlain == "OTelGroupCallMembership.ts"
Revisions == {RevStats, RevPlain}

\* the identities the handlers are called with
UserIds == {"@a", "@b"}
DeviceIds == {"dev1", "dev2"}
CallIds == {"callX", "callY"}

\* span names given to tracer.startSpan
MembershipSpanName == "matrix.groupCallMembership"
CallSpanName == "matrix.call"
StatsSpanName == "matrix.groupCallMembership.statsReport"
SpeakingSpanName == "matrix.audioActivity"

\* enum OTelStatsReportType
OTelStatsReportType == {"matrix.stats.connection", "matrix.stats.byteSent"}

VARIABLES
  revision,               \* which revision of the class runs
  myMember,               \* this.myMember is set: room.getMember(userId) gave
                          \* the constructor a member, not null
  spans,                  \* the tracer's log: every span started so far
  callMembershipSpan,     \* this.callMembershipSpan (0 = undefined)
  callMembershipContext,  \* this.callMembershipContext / this.groupCallContext:
                          \* the span the context carries (0 = undefined)
  callsByCallId,          \* this.callsByCallId: callId -> CallTrackingInfo
  statsReportSpan,        \* this.statsReportSpan: [span, stats]
  speakingSpans,          \* this.speakingSpans: member -> (deviceId -> span)
  reportsWhileJoined,     \* history: the stats reports delivered while
                          \* callMembershipSpan was set
  listening,              \* onCallsChanged is registered on the group call
  thrown,                 \* the error the last handler call ended with
  voipEvent,              \* a VoipEvent / event content handed to the flattener
  flat                    \* what flattenVoipEvent made of voipEvent

vars == <<revision, myMember, spans, callMembershipSpan, callMembershipContext,
          callsByCallId, statsReportSpan, speakingSpans, reportsWhileJoined,
          listening, thrown, voipEvent, flat>>

\* no error: the handler returned
NoError == "none"

\* what a handler lets escape: a TypeError of the runtime, or the Error that
\* flattenVoipEventRecursive throws
TypeError == "TypeError"
DepthError == "Error"

\* flattenVoipEvent has not been applied to voipEvent
NotFlattened == [threw |-> FALSE, message |-> "not flattened", flatObject |-> <<>>]

\* a handler of the class returns; it touches neither the listener
\* registration nor the flattener's input and output
Returns == thrown' = NoError /\ UNCHANGED <<listening, voipEvent, flat>>

\* ---- the tracer and the Span interface ----

\* tracer.startSpan(name, undefined, context): the new span is the next entry
\* of the log; its parent is the span carried by the context (0: none)
startSpan(log, name, context) ==
  Append(log, [name |-> name, parent |-> context, ends |-> 0, events |-> <<>>])

\* span.addEvent(name)
addEvent(log, span, name) ==
  [log EXCEPT ![span].events = Append(@, name)]

\* span.end()
end(log, span) ==
  [log EXCEPT ![span].ends = @ + 1]

\* ---- the argument of onCallsChanged ----

\* CallsByUserAndDevice, as the entries its two nested Map iterations yield:
\* <<userId, deviceId, callId>> in iteration order.  No (user, device) pair
\* occurs twice and the entries of one user are adjacent.
CallsByUserAndDevice ==
  { c \in UNION { [1..n -> UserIds \X DeviceIds \X CallIds] : n \in 0..MaxCalls } :
      /\ \A i, j \in DOMAIN c :
           (i # j) => <<c[i][1], c[i][2]>> # <<c[j][1], c[j][2]>>
      /\ \A i, j, k \in DOMAIN c :
           (i < j /\ j < k /\ c[i][1] = c[k][1]) => c[j][1] = c[i][1] }

\* calls.get(userId) is defined and has(deviceId)
HasUserDevice(calls, userId, deviceId) ==
  \E i \in DOMAIN calls : calls[i][1] = userId /\ calls[i][2] = deviceId

\* ---- initial state: after the constructor ----
Init ==
  /\ revision \in Revisions
  /\ myMember \in BOOLEAN
  /\ spans = <<>>
  /\ callMembershipSpan = 0
  /\ callMembershipContext = 0
  /\ callsByCallId = <<>>
  /\ statsReportSpan = [span |-> 0, stats |-> <<>>]
  /\ speakingSpans = <<>>
  /\ reportsWhileJoined = 0
  /\ listening = TRUE
  /\ thrown = NoError
  /\ voipEvent = [kind |-> "record", entries |-> <<>>]
  /\ flat = NotFlattened

\* ---- onJoinCall ----
\* OTelGroupCallMembership.ts reads this.myMember.name with no test: without a
\* member the handler throws after it has started and stored the span, before
\* it sets the context and records matrix.joinCall.  part_001 tests myMember.
onJoinCall ==
  /\ Len(spans) < MaxSpans
  /\ LET span == Len(spans) + 1 IN
       IF revision = RevPlain /\ ~myMember
       THEN /\ spans' = startSpan(spans, MembershipSpanName, 0)
            /\ callMembershipSpan' = span
            /\ callMembershipContext' = callMembershipContext
            /\ thrown' = TypeError
       ELSE /\ spans' = addEvent(startSpan(spans, MembershipSpanName, 0),
                                 span, "matrix.joinCall")
            /\ callMembershipSpan' = span
            /\ callMembershipContext' = span
            /\ thrown' = NoError
  /\ UNCHANGED <<listening, voipEvent, flat>>
  /\ UNCHANGED <<revision, myMember, callsByCallId, statsReportSpan,
                 speakingSpans, reportsWhileJoined>>

\* ---- onLeaveCall ----
\* this.callMembershipSpan?.addEvent("matrix.leaveCall"); ...?.end()
leaveSpan(log, span) ==
  IF span = 0 THEN log ELSE end(addEvent(log, span, "matrix.leaveCall"), span)

\* part_001: the span and the context are forgotten
onLeaveCall ==
  /\ revision = RevStats
  /\ spans' = leaveSpan(spans, callMembershipSpan)
  /\ callMembershipSpan' = 0
  /\ callMembershipContext' = 0
  /\ Returns
  /\ UNCHANGED <<revision, myMember, callsByCallId, statsReportSpan, speakingSpans,
                 reportsWhileJoined>>

\* OTelGroupCallMembership.ts: the span and the context are kept
onLeaveCallPlain ==
  /\ revision = RevPlain
  /\ callMembershipSpan # 0 => spans[callMembershipSpan].ends < MaxEnds
  /\ spans' = leaveSpan(spans, callMembershipSpan)
  /\ Returns
  /\ UNCHANGED <<revision, myMember, callMembershipSpan, callMembershipContext,
                 callsByCallId, statsReportSpan, speakingSpans,
                 reportsWhileJoined>>

\* ---- onCallsChanged ----

\* Map.set(key, value)
MapSet(map, key, value) ==
  [k \in (DOMAIN map) \cup {key} |-> IF k = key THEN value ELSE map[k]]

\* Map.delete for a set of keys
MapDelete(map, keys) ==
  [k \in (DOMAIN map) \ keys |-> map[k]]

\* the add pass, from entry i of calls on: a call whose callId is not a key of
\* the table gets a span under the membership context and a CallTrackingInfo
RECURSIVE addPass(_, _, _, _, _)
addPass(calls, i, table, log, context) ==
  IF i > Len(calls) THEN [callsByCallId |-> table, spans |-> log]
  ELSE LET userId == calls[i][1]
           deviceId == calls[i][2]
           callId == calls[i][3]
       IN IF callId \notin DOMAIN table
          THEN addPass(calls, i + 1,
                       MapSet(table, callId,
                              [userId |-> userId, deviceId |-> deviceId,
                               span |-> Len(log) + 1]),
                       startSpan(log, CallSpanName, context),
                       context)
          ELSE addPass(calls, i + 1, table, log, context)

\* the prune condition without the device test: a tracked call goes only when
\* its recorded user has no calls at all (not what the source does)
pruned_UserOnly(calls, table) ==
  { callId \in DOMAIN table :
      ~\E i \in DOMAIN calls : calls[i][1] = table[callId].userId }

\* the tracked calls the prune pass removes: those whose recorded user has no
\* calls, or no call for the recorded device
pruned(calls, table) ==
  { callId \in DOMAIN table :
      ~HasUserDevice(calls, table[callId].userId, table[callId].deviceId) }

\* the prune pass without span.end(): the entries go, their spans stay open
\* (not what the source does)
prunePass_NoEnd(calls, table, log) ==
  [callsByCallId |-> MapDelete(table, pruned(calls, table)), spans |-> log]

\* the prune pass: callTrackingInfo.span.end() and delete, for each of them
prunePass(calls, table, log) ==
  LET gone == pruned(calls, table)
      ended == { table[callId].span : callId \in gone }
  IN [callsByCallId |-> MapDelete(table, gone),
      spans |-> [s \in DOMAIN log |->
                   IF s \in ended THEN [log[s] EXCEPT !.ends = @ + 1]
                   ELSE log[s]]]

\* the whole handler as a function of the state it reads
callsChanged(calls, table, log, context) ==
  LET added == addPass(calls, 1, table, log, context)
  IN prunePass(calls, added.callsByCallId, added.spans)

onCallsChanged(calls) ==
  LET after == callsChanged(calls, callsByCallId, spans, callMembershipContext)
  IN /\ Len(after.spans) <= MaxSpans
     /\ spans' = after.spans
     /\ callsByCallId' = after.callsByCallId
     /\ Returns
     /\ UNCHANGED <<revision, myMember, callMembershipSpan, callMembershipContext,
                    statsReportSpan, speakingSpans, reportsWhileJoined>>

\* ---- the stats reports (part_001 only) ----

\* buildStatsEventSpan with a pairing by kind: a report of the same kind as the
\* pending one is recorded but leaves the batch open, only the other kind
\* completes it (not what the source does)
buildStatsEventSpan_SameKindKeepsOpen(event) ==
  IF statsReportSpan.span = 0 /\ callMembershipSpan # 0
  THEN LET span == Len(spans) + 1 IN
         /\ Len(spans) < MaxSpans
         /\ spans' = addEvent(startSpan(spans, StatsSpanName, callMembershipSpan),
                              span, event)
         /\ statsReportSpan' = [span |-> span,
                                stats |-> Append(statsReportSpan.stats, event)]
  ELSE IF statsReportSpan.span # 0 /\ callMembershipSpan # 0
  THEN IF statsReportSpan.stats[1] = event
       THEN /\ Len(spans[statsReportSpan.span].events) < MaxEnds + 1
            /\ spans' = addEvent(spans, statsReportSpan.span, event)
            /\ UNCHANGED statsReportSpan
       ELSE /\ spans' = end(addEvent(spans, statsReportSpan.span, event),
                            statsReportSpan.span)
            /\ statsReportSpan' = [span |-> 0, stats |-> <<>>]
  ELSE UNCHANGED <<spans, statsReportSpan>>

\* buildStatsEventSpan without the reset of this.statsReportSpan after end()
\* (not what the source does)
buildStatsEventSpan_KeepsBatch(event) ==
  IF statsReportSpan.span = 0 /\ callMembershipSpan # 0
  THEN LET span == Len(spans) + 1 IN
         /\ Len(spans) < MaxSpans
         /\ spans' = addEvent(startSpan(spans, StatsSpanName, callMembershipSpan),
                              span, event)
         /\ statsReportSpan' = [span |-> span,
                                stats |-> Append(statsReportSpan.stats, event)]
  ELSE IF statsReportSpan.span # 0 /\ callMembershipSpan # 0
  THEN /\ spans[statsReportSpan.span].ends < MaxEnds
       /\ spans' = end(addEvent(spans, statsReportSpan.span, event),
                       statsReportSpan.span)
       /\ UNCHANGED statsReportSpan
  ELSE UNCHANGED <<spans, statsReportSpan>>

\* this.buildStatsEventSpan({ type, data }): the first report of a batch opens
\* a span under the membership span, the second one completes and clears it
buildStatsEventSpan(event) ==
  IF statsReportSpan.span = 0 /\ callMembershipSpan # 0
  THEN LET span == Len(spans) + 1 IN
         /\ Len(spans) < MaxSpans
         /\ spans' = addEvent(startSpan(spans, StatsSpanName, callMembershipSpan),
                              span, event)
         /\ statsReportSpan' = [span |-> span,
                                stats |-> Append(statsReportSpan.stats, event)]
  ELSE IF statsReportSpan.span # 0 /\ callMembershipSpan # 0
  THEN /\ spans' = end(addEvent(spans, statsReportSpan.span, event),
                       statsReportSpan.span)
       /\ statsReportSpan' = [span |-> 0, stats |-> <<>>]
  ELSE UNCHANGED <<spans, statsReportSpan>>

\* a report handler: the history variable counts it when a membership span is set
statsReport(type) ==
  /\ revision = RevStats
  /\ buildStatsEventSpan(type)
  /\ reportsWhileJoined' =
       IF callMembershipSpan # 0 THEN reportsWhileJoined + 1
       ELSE reportsWhileJoined
  /\ Returns
  /\ UNCHANGED <<revision, myMember, callMembershipSpan, callMembershipContext,
                 callsByCallId, speakingSpans>>

onConnectionStatsReport == statsReport("matrix.stats.connection")

onByteSentStatsReport == statsReport("matrix.stats.byteSent")

\* ---- onSpeaking (part_001 only) ----

\* onSpeaking without the deviceMap.has(deviceId) test: every "speaking"
\* notification starts a span (not what the source does)
onSpeaking_AlwaysStarts(member, deviceId, speaking) ==
  /\ revision = RevStats
  /\ IF speaking
     THEN LET deviceMap == IF member \in DOMAIN speakingSpans
                           THEN speakingSpans[member] ELSE <<>>
          IN /\ Len(spans) < MaxSpans
             /\ spans' = startSpan(spans, SpeakingSpanName, callMembershipContext)
             /\ speakingSpans' =
                  MapSet(speakingSpans, member,
                         MapSet(deviceMap, deviceId, Len(spans) + 1))
     ELSE IF member \in DOMAIN speakingSpans
          THEN LET deviceMap == speakingSpans[member]
                   left == MapDelete(deviceMap, {deviceId})
               IN /\ spans' = IF deviceId \in DOMAIN deviceMap
                              THEN end(spans, deviceMap[deviceId]) ELSE spans
                  /\ speakingSpans' =
                       IF DOMAIN left = {}
                       THEN MapDelete(speakingSpans, {member})
                       ELSE MapSet(speakingSpans, member, left)
          ELSE UNCHANGED <<spans, speakingSpans>>
  /\ Returns
  /\ UNCHANGED <<revision, myMember, callMembershipSpan, callMembershipContext,
                 callsByCallId, statsReportSpan, reportsWhileJoined>>

\* onSpeaking without the removal of a member whose device map became empty
\* (not what the source does)
onSpeaking_KeepsEmptyMember(member, deviceId, speaking) ==
  /\ revision = RevStats
  /\ IF speaking
     THEN LET deviceMap == IF member \in DOMAIN speakingSpans
                           THEN speakingSpans[member] ELSE <<>>
          IN IF deviceId \notin DOMAIN deviceMap
             THEN /\ Len(spans) < MaxSpans
                  /\ spans' = startSpan(spans, SpeakingSpanName,
                                        callMembershipContext)
                  /\ speakingSpans' =
                       MapSet(speakingSpans, member,
                              MapSet(deviceMap, deviceId, Len(spans) + 1))
             ELSE /\ spans' = spans
                  /\ speakingSpans' = MapSet(speakingSpans, member, deviceMap)
     ELSE IF member \in DOMAIN speakingSpans
          THEN LET deviceMap == speakingSpans[member]
                   left == MapDelete(deviceMap, {deviceId})
               IN /\ spans' = IF deviceId \in DOMAIN deviceMap
                              THEN end(spans, deviceMap[deviceId]) ELSE spans
                  /\ speakingSpans' = MapSet(speakingSpans, member, left)
          ELSE UNCHANGED <<spans, speakingSpans>>
  /\ Returns
  /\ UNCHANGED <<revision, myMember, callMembershipSpan, callMembershipContext,
                 callsByCallId, statsReportSpan, reportsWhileJoined>>

\* a "speaking" notification opens the pair's span unless it has one; a "not
\* speaking" one ends and removes it, and the member with its last device
onSpeaking(member, deviceId, speaking) ==
  /\ revision = RevStats
  /\ IF speaking
     THEN LET deviceMap == IF member \in DOMAIN speakingSpans
                           THEN speakingSpans[member] ELSE <<>>
          IN IF deviceId \notin DOMAIN deviceMap
             THEN /\ Len(spans) < MaxSpans
                  /\ spans' = startSpan(spans, SpeakingSpanName,
                                        callMembershipContext)
                  /\ speakingSpans' =
                       MapSet(speakingSpans, member,
                              MapSet(deviceMap, deviceId, Len(spans) + 1))
             ELSE /\ spans' = spans
                  /\ speakingSpans' = MapSet(speakingSpans, member, deviceMap)
     ELSE IF member \in DOMAIN speakingSpans
          THEN LET deviceMap == speakingSpans[member]
                   left == MapDelete(deviceMap, {deviceId})
               IN /\ spans' = IF deviceId \in DOMAIN deviceMap
                              THEN end(spans, deviceMap[deviceId]) ELSE spans
                  /\ speakingSpans' =
                       IF DOMAIN left = {}
                       THEN MapDelete(speakingSpans, {member})
                       ELSE MapSet(speakingSpans, member, left)
          ELSE UNCHANGED <<spans, speakingSpans>>
  /\ Returns
  /\ UNCHANGED <<revision, myMember, callMembershipSpan, callMembershipContext,
                 callsByCallId, statsReportSpan, reportsWhileJoined>>

\* ---- flattenVoipEvent ----

\* the values of a payload, by what JavaScript makes of them
Str(v) == [kind |-> "string", val |-> v]
Num(v) == [kind |-> "number", num |-> v]
Bool(v) == [kind |-> "boolean", bool |-> v]
Null == [kind |-> "null"]
Undefined == [kind |-> "undefined"]
Function == [kind |-> "function"]
Array(items) == [kind |-> "array", items |-> items]
\* a record with its [key, value] entries in Object.entries order
Record(entries) == [kind |-> "record", entries |-> entries]

\* typeof v
typeof(v) ==
  IF v.kind \in {"record", "array", "null"} THEN "object" ELSE v.kind

\* Object.entries(obj) of a record, of an array or a string (the indices are
\* the keys), or of another primitive or a function (no entries)
ObjectEntries(obj) ==
  IF obj.kind = "record" THEN obj.entries
  ELSE IF obj.kind = "array"
  THEN [i \in 1..Len(obj.items) |-> <<ToString(i - 1), obj.items[i]>>]
  ELSE IF obj.kind = "string"
  THEN [i \in 1..Len(obj.val) |-> <<ToString(i - 1), Str(SubSeq(obj.val, i, i))>>]
  ELSE <<>>

\* if (depth > 10) throw
DepthLimit == 10

DepthMessage == "Depth limit exceeded: aborting VoipEvent recursion. Prefix is "

RECURSIVE flattenVoipEventRecursive(_, _, _, _)
RECURSIVE flattenEntries(_, _, _, _, _)

\* flattenVoipEventRecursive with the bound taken one level early
\* (not what the source does)
flattenVoipEventRecursive_OneLevelEarly(obj, flatObject, prefix, depth) ==
  IF depth >= DepthLimit
  THEN [threw |-> TRUE, message |-> DepthMessage \o prefix, flatObject |-> flatObject]
  ELSE IF obj.kind \in {"null", "undefined"}
  THEN [threw |-> TRUE,
        message |-> "TypeError: Cannot convert undefined or null to object",
        flatObject |-> flatObject]
  ELSE flattenEntries(ObjectEntries(obj), 1, flatObject, prefix, depth)

\* one call of flattenVoipEventRecursive: what it throws, or the flatObject it
\* leaves.  Object.entries of null or undefined is a TypeError.
flattenVoipEventRecursive(obj, flatObject, prefix, depth) ==
  IF depth > DepthLimit
  THEN [threw |-> TRUE, message |-> DepthMessage \o prefix, flatObject |-> flatObject]
  ELSE IF obj.kind \in {"null", "undefined"}
  THEN [threw |-> TRUE,
        message |-> "TypeError: Cannot convert undefined or null to object",
        flatObject |-> flatObject]
  ELSE flattenEntries(ObjectEntries(obj), 1, flatObject, prefix, depth)

\* its for loop, from entry i on
flattenEntries(entries, i, flatObject, prefix, depth) ==
  IF i > Len(entries)
  THEN [threw |-> FALSE, message |-> "", flatObject |-> flatObject]
  ELSE LET k == entries[i][1]
           v == entries[i][2]
       IN IF typeof(v) \in {"string", "number"}
          THEN flattenEntries(entries, i + 1, MapSet(flatObject, prefix \o k, v),
                              prefix, depth)
          ELSE IF typeof(v) = "object"
          THEN LET inner == flattenVoipEventRecursive(v, flatObject,
                                                      prefix \o k \o ".", depth + 1)
               IN IF inner.threw THEN inner
                  ELSE flattenEntries(entries, i + 1, inner.flatObject,
                                      prefix, depth)
          ELSE flattenEntries(entries, i + 1, flatObject, prefix, depth)

\* flattenVoipEvent(event): the flat object, or the error that propagates
flattenVoipEvent(ev) ==
  LET r == flattenVoipEventRecursive(ev, <<>>, "matrix.event.", 0)
  IN IF r.threw THEN [r EXCEPT !.flatObject = <<>>] ELSE r

\* ---- payloads to flatten ----

PayloadKeys == {"a", "b", "a.b"}
PayloadLeaves == {Str("x"), Num(1), Bool(TRUE)}

\* the sequences of at most n entries over the given values, keys distinct
EntriesOver(values, n) ==
  { e \in UNION { [1..m -> PayloadKeys \X values] : m \in 0..n } :
      \A i, j \in DOMAIN e : i # j => e[i][1] # e[j][1] }

\* records of at most two entries whose values are leaves or records of at
\* most one leaf
BasePayloads ==
  { Record(e) :
      e \in EntriesOver(PayloadLeaves
                          \cup { Record(f) : f \in EntriesOver(PayloadLeaves, 1) },
                        2) }

\* the caller wraps the payload into one more record
nest ==
  /\ \E k \in {"content"} :
       voipEvent' = Record(<< <<k, voipEvent>> >>)
  /\ flat' = NotFlattened
  /\ UNCHANGED <<revision, myMember, spans, callMembershipSpan, callMembershipContext,
                 callsByCallId, statsReportSpan, speakingSpans,
                 reportsWhileJoined, listening, thrown>>

\* flattenVoipEvent(voipEvent) is called
flatten ==
  /\ flat = NotFlattened
  /\ flat' = flattenVoipEvent(voipEvent)
  /\ UNCHANGED <<revision, myMember, spans, callMembershipSpan, callMembershipContext,
                 callsByCallId, statsReportSpan, speakingSpans,
                 reportsWhileJoined, listening, thrown, voipEvent>>

Next ==
  \/ onJoinCall
  \/ onLeaveCall
  \/ onLeaveCallPlain
  \/ \E calls \in CallsByUserAndDevice : onCallsChanged(calls)
  \/ onConnectionStatsReport
  \/ onByteSentStatsReport
  \/ \E member \in UserIds, deviceId \in DeviceIds, speaking \in BOOLEAN :
       onSpeaking(member, deviceId, speaking)

Spec == Init /\ [][Next]_vars

\* ---- the event routing handlers ----

\* the routing handlers run while the span log holds fewer routed events
\* than this
MaxRouted == 1

\* the events of the log that the routing handlers added: all but the
\* matrix.joinCall and matrix.leaveCall of the membership span
RECURSIVE RoutedCount(_)
RoutedCount(log) ==
  IF log = <<>> THEN 0
  ELSE LET events == log[Len(log)].events
       IN Cardinality({ i \in DOMAIN events :
                          events[i] \notin {"matrix.joinCall", "matrix.leaveCall"} })
            + RoutedCount(SubSeq(log, 1, Len(log) - 1))

\* s.startsWith(p)
startsWith(s, p) == Len(s) >= Len(p) /\ SubSeq(s, 1, Len(p)) = p

\* a record nested n levels deep
RECURSIVE Chain(_)
Chain(n) ==
  IF n <= 1 THEN Record(<< <<"sdp", Str("x")>> >>)
  ELSE Record(<< <<"content", Chain(n - 1)>> >>)

\* event payloads: a flat one, one nested too deep for the flattener, and null
Bodies == {Chain(1), Chain(DepthLimit + 1), Null}
EventTypes == {"m.call.invite", "m.room.message"}
SendTypes == {"toDevice", "sendEvent", "other"}

\* a VoipEvent as onSendEvent gets it
VoipEvent(eventType, type, body) ==
  Record(<< <<"eventType", Str(eventType)>>, <<"type", Str(type)>>,
            <<"content", body>> >>)

VoipEvents == { VoipEvent(t[1], t[2], t[3]) : t \in EventTypes \X SendTypes \X Bodies }

\* the value under key k of a record, undefined where it has none
Get(obj, k) ==
  IF \E i \in DOMAIN obj.entries : obj.entries[i][1] = k
  THEN obj.entries[CHOOSE i \in DOMAIN obj.entries : obj.entries[i][1] = k][2]
  ELSE Undefined

\* the error flattenVoipEvent let escape: the Error of the depth test, or the
\* TypeError of Object.entries(null)
thrownBy(result) ==
  IF startsWith(result.message, DepthMessage) THEN DepthError ELSE TypeError

\* the name of the event onSendEvent records
sendEventName(event) ==
  (IF Get(event, "type").val = "toDevice" THEN "matrix.sendToDeviceEvent_"
   ELSE "matrix.sendToRoomEvent_") \o Get(event, "eventType").val

\* the handler changes the span log and what it throws, nothing else
Routes ==
  UNCHANGED <<revision, myMember, callMembershipSpan, callMembershipContext,
              callsByCallId, statsReportSpan, speakingSpans,
              reportsWhileJoined, listening, voipEvent, flat>>

\* onCallStateChange that falls back to the membership span for an unknown
\* call (not what the source does)
onCallStateChange_MembershipFallback(callId) ==
  /\ RoutedCount(spans) < MaxRouted
  /\ thrown' = NoError
  /\ spans' = IF callId \in DOMAIN callsByCallId
              THEN addEvent(spans, callsByCallId[callId].span, "matrix.call.stateChange")
              ELSE IF callMembershipSpan # 0
              THEN addEvent(spans, callMembershipSpan, "matrix.call.stateChange")
              ELSE spans
  /\ Routes

\* onCallStateChange(call, newState)
onCallStateChange(callId) ==
  /\ RoutedCount(spans) < MaxRouted
  /\ thrown' = NoError
  /\ spans' = IF callId \in DOMAIN callsByCallId
              THEN addEvent(spans, callsByCallId[callId].span, "matrix.call.stateChange")
              ELSE spans
  /\ Routes

\* onCallError(error, call): span.recordException adds the event "exception"
onCallError(callId) ==
  /\ RoutedCount(spans) < MaxRouted
  /\ thrown' = NoError
  /\ spans' = IF callId \in DOMAIN callsByCallId
              THEN addEvent(spans, callsByCallId[callId].span, "exception")
              ELSE spans
  /\ Routes

\* onSendEvent(call, event) of part_001: callTrackingInfo.span is read before
\* the arguments of addEvent are evaluated
onSendEvent(callId, event) ==
  /\ revision = RevStats
  /\ RoutedCount(spans) < MaxRouted
  /\ LET sends == /\ startsWith(Get(event, "eventType").val, "m.call")
                  /\ Get(event, "type").val \in {"toDevice", "sendEvent"}
         flatObject == flattenVoipEvent(event)
     IN IF ~sends THEN thrown' = NoError /\ spans' = spans
        ELSE IF callId \notin DOMAIN callsByCallId
        THEN thrown' = TypeError /\ spans' = spans
        ELSE IF flatObject.threw
        THEN thrown' = thrownBy(flatObject) /\ spans' = spans
        ELSE /\ thrown' = NoError
             /\ spans' = addEvent(spans, callsByCallId[callId].span,
                                  sendEventName(event))
  /\ Routes

\* onSendEvent(call, event) of OTelGroupCallMembership.ts: the event goes to
\* callMembershipSpan?., whose arguments are not evaluated when it is undefined
onSendEventPlain(callId, event) ==
  /\ revision = RevPlain
  /\ RoutedCount(spans) < MaxRouted
  /\ LET sends == /\ startsWith(Get(event, "eventType").val, "m.call")
                  /\ Get(event, "type").val \in {"toDevice", "sendEvent"}
         flatObject == flattenVoipEvent(event)
     IN IF ~sends \/ callMembershipSpan = 0
        THEN thrown' = NoError /\ spans' = spans
        ELSE IF flatObject.threw
        THEN thrown' = thrownBy(flatObject) /\ spans' = spans
        ELSE /\ thrown' = NoError
             /\ spans' = addEvent(spans, callMembershipSpan, sendEventName(event))
  /\ Routes

\* the content of a received event: without call_id, or with one that is a
\* call identifier, the empty string or the number 0; and a body
Contents ==
  { Record(<< <<"body", b>> >>) : b \in Bodies }
    \cup { Record(<< <<"call_id", c>>, <<"body", b>> >>) :
             c \in { Str(id) : id \in CallIds \cup {""} } \cup {Num(0)},
             b \in Bodies }

\* !v
falsy(v) ==
  \/ v.kind \in {"null", "undefined"}
  \/ v.kind = "string" /\ v.val = ""
  \/ v.kind = "number" /\ v.num = 0
  \/ v.kind = "boolean" /\ v.bool = FALSE

\* onReceivedVoipEvent(event), content being event.getContent()
onReceivedVoipEvent(content) ==
  /\ RoutedCount(spans) < MaxRouted
  /\ LET callId == Get(content, "call_id")
         flatObject == flattenVoipEvent(content)
     IN IF falsy(callId)
        THEN /\ thrown' = NoError
             /\ spans' = IF callMembershipSpan = 0 THEN spans
                         ELSE addEvent(spans, callMembershipSpan,
                                       "matrix.receive_voip_event_no_callid")
        ELSE IF callId.kind # "string" \/ callId.val \notin DOMAIN callsByCallId
        THEN /\ thrown' = NoError
             /\ spans' = IF callMembershipSpan = 0 THEN spans
                         ELSE addEvent(spans, callMembershipSpan,
                                       "matrix.receive_voip_event_unknown_callid")
        ELSE IF flatObject.threw
        THEN thrown' = thrownBy(flatObject) /\ spans' = spans
        ELSE /\ thrown' = NoError
             /\ spans' = addEvent(spans, callsByCallId[callId.val].span,
                                  "matrix.receive_voip_event")
  /\ Routes

\* this.callMembershipSpan?.addEvent(name, ...) with plain attributes
membershipEvent(name) ==
  /\ RoutedCount(spans) < MaxRouted
  /\ thrown' = NoError
  /\ spans' = IF callMembershipSpan = 0 THEN spans
              ELSE addEvent(spans, callMembershipSpan, name)
  /\ Routes

onToggleMicrophoneMuted == membershipEvent("matrix.toggleMicMuted")

onSetMicrophoneMuted == membershipEvent("matrix.setMicMuted")

onToggleLocalVideoMuted == membershipEvent("matrix.toggleVidMuted")

onSetLocalVideoMuted == membershipEvent("matrix.setVidMuted")

\* the source names this event matrix.setVidMuted too
onToggleScreensharing == membershipEvent("matrix.setVidMuted")

\* onGroupCallError(error): callMembershipSpan?.recordException(error)
onGroupCallError == membershipEvent("exception")

onUndecryptableToDevice == membershipEvent("matrix.toDevice.undecryptable")

\* the room state events onUpdateRoomState may get; Null is a missing event
RoomStateTypes == {"m.call", "org.matrix.msc3401.call.member", "m.room.member"}
\* their contents: a flat one, one nested too deep for the flattener, and null
RoomStateContents == {Chain(1), Chain(DepthLimit + 2), Null}
RoomStateEvents ==
  {Null} \cup { Record(<< <<"type", Str(t[1])>>, <<"content", t[2]>> >>) :
                  t \in RoomStateTypes \X RoomStateContents }

\* onUpdateRoomState(event): the content is flattened only when there is a
\* membership span to call addEvent on
onUpdateRoomState(event) ==
  /\ RoutedCount(spans) < MaxRouted
  /\ LET skipped ==
           \/ event = Null
           \/ /\ ~startsWith(Get(event, "type").val, "m.call")
              /\ ~startsWith(Get(event, "type").val, "org.matrix.msc3401.call")
     IN IF skipped \/ callMembershipSpan = 0
        THEN thrown' = NoError /\ spans' = spans
        ELSE IF flattenVoipEvent(Get(event, "content")).threw
        THEN /\ thrown' = thrownBy(flattenVoipEvent(Get(event, "content")))
             /\ spans' = spans
        ELSE /\ thrown' = NoError
             /\ spans' = addEvent(spans, callMembershipSpan,
                                  "matrix.roomStateEvent_" \o Get(event, "type").val)
  /\ Routes

NextRouting ==
  \/ onJoinCall
  \/ onLeaveCall
  \/ onLeaveCallPlain
  \/ \E calls \in CallsByUserAndDevice : onCallsChanged(calls)
  \/ \E callId \in CallIds : onCallStateChange(callId)
  \/ \E callId \in CallIds : onCallError(callId)
  \/ \E callId \in CallIds, event \in VoipEvents : onSendEvent(callId, event)
  \/ \E callId \in CallIds, event \in VoipEvents : onSendEventPlain(callId, event)
  \/ \E content \in Contents : onReceivedVoipEvent(content)
  \/ \E event \in RoomStateEvents : onUpdateRoomState(event)
  \/ onToggleMicrophoneMuted
  \/ onSetMicrophoneMuted
  \/ onToggleLocalVideoMuted
  \/ onSetLocalVideoMuted
  \/ onToggleScreensharing
  \/ onGroupCallError
  \/ onUndecryptableToDevice

SpecRouting == Init /\ [][NextRouting]_vars

\* ---- the listener registration ----

\* dispose that also stops tracking: it ends the tracked call spans and clears
\* the table (not what the source does)
dispose_ForceCloses ==
  /\ listening' = FALSE
  /\ thrown' = NoError
  /\ spans' = [s \in DOMAIN spans |->
                 IF \E callId \in DOMAIN callsByCallId : callsByCallId[callId].span = s
                 THEN [spans[s] EXCEPT !.ends = @ + 1] ELSE spans[s]]
  /\ callsByCallId' = <<>>
  /\ UNCHANGED <<revision, myMember, callMembershipSpan, callMembershipContext,
                 statsReportSpan, speakingSpans, reportsWhileJoined,
                 voipEvent, flat>>

\* dispose(): groupCall.removeListener(CallsChanged, this.onCallsChanged)
dispose ==
  /\ listening' = FALSE
  /\ thrown' = NoError
  /\ UNCHANGED <<revision, myMember, spans, callMembershipSpan, callMembershipContext,
                 callsByCallId, statsReportSpan, speakingSpans,
                 reportsWhileJoined, voipEvent, flat>>

\* the group call emits CallsChanged: the handler runs while it is registered
emitCallsChanged(calls) ==
  \/ listening /\ onCallsChanged(calls)
  \/ ~listening /\ UNCHANGED vars

NextListener ==
  \/ onJoinCall
  \/ onLeaveCall
  \/ onLeaveCallPlain
  \/ \E calls \in CallsByUserAndDevice : emitCallsChanged(calls)
  \/ dispose
  \/ onConnectionStatsReport
  \/ onByteSentStatsReport
  \/ \E member \in UserIds, deviceId \in DeviceIds, speaking \in BOOLEAN :
       onSpeaking(member, deviceId, speaking)

SpecListener == Init /\ [][NextListener]_vars

\* ---- the flattener on its own ----

\* the number of record levels of a payload: 1 for a record of leaves
RECURSIVE Depth(_)
RECURSIVE DepthOfEntries(_, _)
Depth(v) ==
  IF typeof(v) = "object" /\ v.kind # "null"
  THEN 1 + DepthOfEntries(ObjectEntries(v), 1)
  ELSE 0
DepthOfEntries(entries, i) ==
  IF i > Len(entries) THEN 0
  ELSE LET d == Depth(entries[i][2])
           rest == DepthOfEntries(entries, i + 1)
       IN IF d > rest THEN d ELSE rest

InitFlatten ==
  /\ revision \in Revisions
  /\ myMember \in BOOLEAN
  /\ spans = <<>>
  /\ callMembershipSpan = 0
  /\ callMembershipContext = 0
  /\ callsByCallId = <<>>
  /\ statsReportSpan = [span |-> 0, stats |-> <<>>]
  /\ speakingSpans = <<>>
  /\ reportsWhileJoined = 0
  /\ listening = TRUE
  /\ thrown = NoError
  /\ voipEvent \in BasePayloads
  /\ flat = NotFlattened

NextFlatten ==
  \/ Depth(voipEvent) < MaxNest /\ nest
  \/ flatten

SpecFlatten == InitFlatten /\ [][NextFlatten]_vars

\* ---- the flattener on values of every kind ----

\* the values an entry of a payload may hold
PayloadValues ==
  { Str("x"), Num(1), Bool(TRUE), Null, Undefined, Function,
    Array(<<>>), Array(<< Str("y") >>),
    Record(<< <<"b", Str("z")>> >>) }

\* records of at most two entries over these values
ValuePayloads == { Record(e) : e \in EntriesOver(PayloadValues, 2) }

\* the caller wraps in at most this many records
MaxWrap == 2

InitValues ==
  /\ revision \in Revisions
  /\ myMember \in BOOLEAN
  /\ spans = <<>>
  /\ callMembershipSpan = 0
  /\ callMembershipContext = 0
  /\ callsByCallId = <<>>
  /\ statsReportSpan = [span |-> 0, stats |-> <<>>]
  /\ speakingSpans = <<>>
  /\ reportsWhileJoined = 0
  /\ listening = TRUE
  /\ thrown = NoError
  /\ voipEvent \in ValuePayloads
  /\ flat = NotFlattened

NextValues ==
  \/ Depth(voipEvent) < MaxWrap + 2 /\ nest
  \/ flatten

SpecValues == InitValues /\ [][NextValues]_vars

\* ---- vocabulary of the properties ----

SpansNamed(name) == { s \in DOMAIN spans : spans[s].name = name }

\* started and not yet ended
Open(s) == spans[s].ends = 0

\* a membership span is held and has not been ended
Joined == callMembershipSpan # 0 /\ Open(callMembershipSpan)

\* the context carries no span, or a span that has ended
NoLiveContext == callMembershipContext = 0 \/ ~Open(callMembershipContext)

LeaveStep == onLeaveCall \/ onLeaveCallPlain

CallsChangedStep == \E calls \in CallsByUserAndDevice : onCallsChanged(calls)

StatsReportStep == onConnectionStatsReport \/ onByteSentStatsReport

SpeakingStartStep ==
  \E member \in UserIds, deviceId \in DeviceIds : onSpeaking(member, deviceId, TRUE)

\* the spans a step starts
Started == (DOMAIN spans') \ (DOMAIN spans)

\* ---- C1 ----
\* C1: no span of any kind (membership, call, stats batch, speaking) has had
\* end() called on it more than once, whatever handlers ran; in particular a
\* second onLeaveCall after one onJoinCall does not end the membership span again.
C1_NoSpanEndedTwice == \A s \in DOMAIN spans : spans[s].ends <= 1

\* ---- C2 ----
\* C2: immediately after onLeaveCall returns every child span is closed: each
\* call span, stats-batch span and speaking span started so far has been ended.
C2_LeaveClosesChildren ==
  [][LeaveStep =>
       \A s \in DOMAIN spans' :
         spans'[s].name # MembershipSpanName => spans'[s].ends >= 1]_vars

\* ---- C3 ----
\* C3: after onCallsChanged(S) has run, running it again with the same S is a
\* no-op: it starts no span, ends no span and leaves the tracking table as it is.
C3_CallsChangedIdempotent ==
  [][\A calls \in CallsByUserAndDevice :
       onCallsChanged(calls) =>
         callsChanged(calls, callsByCallId', spans', callMembershipContext')
           = [callsByCallId |-> callsByCallId', spans |-> spans']]_vars

\* ---- C4 ----
\* C4: after onCallsChanged(S) returns, every call identifier left in the
\* tracking table is the identifier of some call in S.
C4_TrackedIdsAreObserved ==
  [][\A calls \in CallsByUserAndDevice :
       onCallsChanged(calls) =>
         \A callId \in DOMAIN callsByCallId' :
           \E i \in DOMAIN calls : calls[i][3] = callId]_vars

\* ---- C5 ----
\* C5: in every reachable state at most one membership span is started and
\* not yet ended.
C5_AtMostOneLiveMembershipSpan ==
  Cardinality({ s \in SpansNamed(MembershipSpanName) : Open(s) }) <= 1

\* ---- C6 ----
\* C6: onLeaveCall while not joined (never joined, or already left) changes
\* nothing: no event, no end, no state change; onLeaveCall while joined ends
\* the one membership span exactly once, and it had not been ended before.
C6_LeaveWhenNotJoinedIsNoOp ==
  [][LeaveStep =>
       IF Joined
       THEN /\ spans'[callMembershipSpan].ends = 1
            /\ \A s \in DOMAIN spans :
                 s # callMembershipSpan => spans'[s] = spans[s]
       ELSE UNCHANGED vars]_vars

\* ---- C7 ----
\* C7: no span is ever started with, as its parent, a membership span that has
\* already ended.
C7_NoChildOfEndedSpan ==
  [][\A s \in Started :
       spans'[s].parent # 0 => spans[spans'[s].parent].ends = 0]_vars

\* ---- C8 ----
\* C8: while no membership context is live, onCallsChanged, a stats report and
\* onSpeaking(member, device, true) start no span.
C8_NoSpanWithoutContext ==
  [][(NoLiveContext /\ (CallsChangedStep \/ StatsReportStep \/ SpeakingStartStep))
       => Started = {}]_vars

\* ---- C9 ----
\* C9 as claimed: a stats-batch span whose two recorded reports are of the same
\* kind has not been ended.
C9_SameKindLeavesSpanOpen ==
  \A s \in SpansNamed(StatsSpanName) :
    (Len(spans[s].events) >= 2 /\ spans[s].events[1] = spans[s].events[2])
      => Open(s)

\* C9 amended: while joined with a batch open, a report of the same kind as the
\* pending one (as of the other kind) is recorded on the open span, ends that
\* span exactly once and clears the batch.
C9_SecondReportEndsSpan ==
  [][\A type \in OTelStatsReportType :
       (statsReport(type) /\ callMembershipSpan # 0 /\ statsReportSpan.span # 0)
         => LET s == statsReportSpan.span IN
              /\ spans[s].ends = 0
              /\ spans'[s].ends = 1
              /\ spans'[s].events = Append(spans[s].events, type)
              /\ statsReportSpan' = [span |-> 0, stats |-> <<>>]]_vars

\* a second connection report has closed the span a first one opened
C9_Witness ==
  \E s \in SpansNamed(StatsSpanName) :
    /\ spans[s].events = <<"matrix.stats.connection", "matrix.stats.connection">>
    /\ spans[s].ends = 1

\* ---- C10 ----
\* no membership span has been ended: every report counted so far was delivered
\* in one uninterrupted joined interval that began with no batch open
NeverLeft == \A s \in SpansNamed(MembershipSpanName) : Open(s)

\* C10: after n reports delivered while continuously joined, at most one
\* stats-batch span is open, exactly n div 2 have been ended (once each, with two
\* recorded reports each), and an odd n leaves exactly one open span holding one
\* report and no end call.
C10_StatsPairing ==
  NeverLeft =>
    LET stats == SpansNamed(StatsSpanName)
        open == { s \in stats : Open(s) }
        ended == stats \ open
    IN /\ Cardinality(open) <= 1
       /\ Cardinality(ended) = reportsWhileJoined \div 2
       /\ \A s \in ended : spans[s].ends = 1 /\ Len(spans[s].events) = 2
       /\ Cardinality(open) = reportsWhileJoined % 2
       /\ \A s \in open : Len(spans[s].events) = 1 /\ statsReportSpan.span = s

\* three reports while joined: one completed pair and one unpaired report
C10_Witness ==
  /\ NeverLeft
  /\ reportsWhileJoined = 3
  /\ Cardinality({ s \in SpansNamed(StatsSpanName) : ~Open(s) }) = 1
  /\ statsReportSpan.span # 0

\* ---- C11 ----
\* the call identifiers that occur in a call set
IdsIn(calls) == { calls[i][3] : i \in DOMAIN calls }

\* C11: when the set given to onCallsChanged holds an already-tracked call
\* identifier under another (user, device) pair and its recorded pair is
\* absent, the call is kept as it is: its span is not ended, the identifier stays
\* tracked with the same span, and no span is started for it.
C11_MovedCallIsKept ==
  [][\A calls \in CallsByUserAndDevice :
       onCallsChanged(calls) =>
         \A callId \in (DOMAIN callsByCallId) \cap IdsIn(calls) :
           LET info == callsByCallId[callId] IN
             ~HasUserDevice(calls, info.userId, info.deviceId) =>
               /\ callId \in DOMAIN callsByCallId'
               /\ callsByCallId'[callId] = info
               /\ spans'[info.span] = spans[info.span]]_vars

\* ---- C12 ----
\* C12: onCallsChanged(S) starts exactly one call span per call identifier of S
\* that was not tracked, and tracks it; a tracked call whose recorded
\* (user, device) pair is missing from S has its span ended exactly once and its
\* entry removed; a tracked call whose pair is still in S keeps its entry and
\* its span untouched.
C12_AddAndPrune ==
  [][\A calls \in CallsByUserAndDevice :
       onCallsChanged(calls) =>
         LET new == IdsIn(calls) \ DOMAIN callsByCallId IN
           /\ Cardinality(Started) = Cardinality(new)
           /\ \A s \in Started : spans'[s].name = CallSpanName /\ spans'[s].ends = 0
           /\ \A callId \in new :
                /\ callId \in DOMAIN callsByCallId'
                /\ callsByCallId'[callId].span \in Started
           /\ \A c1, c2 \in new :
                c1 # c2 => callsByCallId'[c1].span # callsByCallId'[c2].span
           /\ \A callId \in DOMAIN callsByCallId :
                LET info == callsByCallId[callId] IN
                  IF HasUserDevice(calls, info.userId, info.deviceId)
                  THEN /\ callId \in DOMAIN callsByCallId'
                       /\ callsByCallId'[callId] = info
                       /\ spans'[info.span] = spans[info.span]
                  ELSE /\ callId \notin DOMAIN callsByCallId'
                       /\ spans[info.span].ends = 0
                       /\ spans'[info.span].ends = 1]_vars

\* callX was added, then callY under another pair, then the pair of callX left
\* the set: the span of callX has ended once, callY is tracked with an open span
C12_Witness ==
  /\ DOMAIN callsByCallId = {"callY"}
  /\ Open(callsByCallId["callY"].span)
  /\ \E s \in SpansNamed(CallSpanName) :
       /\ spans[s].ends = 1
       /\ s < callsByCallId["callY"].span

\* ---- C14 ----
\* the (member, device) pairs stored in the speaking map
SpeakingEntries ==
  { e \in UserIds \X DeviceIds :
      e[1] \in DOMAIN speakingSpans /\ e[2] \in DOMAIN speakingSpans[e[1]] }

\* C14: every stored (member, device) pair holds an open speaking span of its
\* own, the open speaking spans are exactly the stored ones (so at most one per
\* pair and as many as there are entries), and onSpeaking(member, device, true)
\* for a stored pair starts no span and changes nothing.
C14_OneOpenSpeakingSpanPerPair ==
  /\ [](/\ \A e \in SpeakingEntries :
             /\ speakingSpans[e[1]][e[2]] \in SpansNamed(SpeakingSpanName)
             /\ Open(speakingSpans[e[1]][e[2]])
        /\ \A e1, e2 \in SpeakingEntries :
             e1 # e2 => speakingSpans[e1[1]][e1[2]] # speakingSpans[e2[1]][e2[2]]
        /\ Cardinality({ s \in SpansNamed(SpeakingSpanName) : Open(s) })
             = Cardinality(SpeakingEntries))
  /\ [][\A e \in SpeakingEntries :
          onSpeaking(e[1], e[2], TRUE) => UNCHANGED vars]_vars

\* two devices of one member and a device of another member are speaking
C14_Witness ==
  /\ Cardinality(SpeakingEntries) = 3
  /\ \E member \in DOMAIN speakingSpans : DOMAIN speakingSpans[member] = DeviceIds

\* ---- C15 ----
\* C15: onSpeaking(member, device, false) for a stored pair ends that pair's
\* span exactly once, touches no other span, removes the pair, and removes the
\* member when that was its last device; for a pair that is not stored it
\* changes nothing; and no member is ever stored with an empty device map.
C15_StopSpeaking ==
  /\ [](\A member \in DOMAIN speakingSpans : DOMAIN speakingSpans[member] # {})
  /\ [][\A member \in UserIds, deviceId \in DeviceIds :
          onSpeaking(member, deviceId, FALSE) =>
            IF <<member, deviceId>> \in SpeakingEntries
            THEN LET s == speakingSpans[member][deviceId] IN
                   /\ spans[s].ends = 0
                   /\ spans'[s].ends = 1
                   /\ \A t \in DOMAIN spans : t # s => spans'[t] = spans[t]
                   /\ SpeakingEntries' = SpeakingEntries \ {<<member, deviceId>>}
                   /\ \A e \in SpeakingEntries' :
                        speakingSpans'[e[1]][e[2]] = speakingSpans[e[1]][e[2]]
                   /\ (DOMAIN speakingSpans[member] = {deviceId})
                        => member \notin DOMAIN speakingSpans'
            ELSE UNCHANGED vars]_vars

\* one device of a member has stopped speaking while the other still speaks
C15_Witness ==
  \E member \in DOMAIN speakingSpans :
    /\ Cardinality(DOMAIN speakingSpans[member]) = 1
    /\ \E s \in SpansNamed(SpeakingSpanName) :
         spans[s].ends = 1 /\ s < Len(spans)
    /\ Cardinality({ s \in SpansNamed(SpeakingSpanName) : Open(s) }) = 1

\* ---- C20 ----
\* the string and number leaves of a nested record with their dotted-path
\* keys, in the order of the record's entries
RECURSIVE LeafSeq(_, _, _)
LeafSeq(entries, i, prefix) ==
  IF i > Len(entries) THEN <<>>
  ELSE LET k == entries[i][1]
           v == entries[i][2]
           here == IF v.kind \in {"string", "number"} THEN << <<prefix \o k, v>> >>
                   ELSE IF v.kind = "record"
                   THEN LeafSeq(v.entries, 1, prefix \o k \o ".")
                   ELSE <<>>
       IN here \o LeafSeq(entries, i + 1, prefix)

Leaves(ev) == LeafSeq(ev.entries, 1, "matrix.event.")

\* the dotted-path prefix of the first record that lies at the given level
\* (the top-level payload is level 1), "" if there is none
RECURSIVE PrefixAtLevel(_, _, _, _)
PrefixAtLevel(entries, i, prefix, level) ==
  IF i > Len(entries) THEN ""
  ELSE LET k == entries[i][1]
           v == entries[i][2]
           here == IF v.kind # "record" THEN ""
                   ELSE IF level = 2 THEN prefix \o k \o "."
                   ELSE PrefixAtLevel(v.entries, 1, prefix \o k \o ".", level - 1)
       IN IF here # "" THEN here
          ELSE PrefixAtLevel(entries, i + 1, prefix, level)

\* flatObject holds exactly the leaves, each under its own dotted-path key
HoldsEachLeaf(flatObject, leaves) ==
  /\ DOMAIN flatObject = { leaves[i][1] : i \in DOMAIN leaves }
  /\ \A i \in DOMAIN leaves : flatObject[leaves[i][1]] = leaves[i][2]

\* flatObject holds exactly the leaves' keys, and under a key that several
\* leaves share the leaf that comes last
HoldsLastLeaf(flatObject, leaves) ==
  /\ DOMAIN flatObject = { leaves[i][1] : i \in DOMAIN leaves }
  /\ \A i \in DOMAIN leaves :
       (\A j \in DOMAIN leaves : j > i => leaves[j][1] # leaves[i][1])
         => flatObject[leaves[i][1]] = leaves[i][2]

\* C20 as claimed: counting the top-level payload as depth 1, a payload of
\* depth at most 10 is flattened to exactly its string/number leaves, each
\* under its dotted-path key, and a payload of depth 11 fails with the
\* depth-exceeded error.
C20_FlattenDepth10 ==
  flat # NotFlattened =>
    /\ Depth(voipEvent) <= 10 =>
         ~flat.threw /\ HoldsEachLeaf(flat.flatObject, Leaves(voipEvent))
    /\ Depth(voipEvent) = 11 => flat.threw

\* C20 amended: the bound lies one level deeper.  A payload of depth at most
\* 11 is flattened to the dotted-path keys of its string/number leaves, each
\* holding its leaf (the last one where leaves share a dotted path); a payload
\* of depth 12 fails with the depth-exceeded error, whose message ends with
\* the prefix of the first record at level 12.
C20_FlattenDepth11 ==
  flat # NotFlattened =>
    /\ Depth(voipEvent) <= 11 =>
         ~flat.threw /\ HoldsLastLeaf(flat.flatObject, Leaves(voipEvent))
    /\ Depth(voipEvent) = 12 =>
         /\ flat.threw
         /\ flat.message =
              DepthMessage \o PrefixAtLevel(voipEvent.entries, 1, "matrix.event.", 12)

\* a payload of depth 11 with a leaf at the bottom has been flattened
C20_Witness ==
  /\ Depth(voipEvent) = 11
  /\ ~flat.threw
  /\ flat.flatObject # <<>>
  /\ Len(Leaves(voipEvent)) = 2

\* ---- C13 ----
\* the tracked calls whose CallTrackingInfo holds span s
Owners(s) == { callId \in DOMAIN callsByCallId : callsByCallId[callId].span = s }

\* C13: in every reachable state, onLeaveCall and dispose included, a call span
\* is open exactly when one CallTrackingInfo of the table holds it: it is ended
\* in the step that removes its entry, once, and never while the entry is there.
C13_CallSpanOpenIffTracked ==
  /\ \A s \in SpansNamed(CallSpanName) :
       /\ Open(s) <=> Cardinality(Owners(s)) = 1
       /\ ~Open(s) => Owners(s) = {} /\ spans[s].ends = 1
  /\ \A callId \in DOMAIN callsByCallId :
       callsByCallId[callId].span \in SpansNamed(CallSpanName)

\* after a leave and dispose: one call is still tracked with its span open,
\* another was pruned and its span ended
C13_Witness ==
  /\ ~listening
  /\ \E s \in SpansNamed(MembershipSpanName) : ~Open(s)
  /\ \E s \in SpansNamed(CallSpanName) : Open(s) /\ Owners(s) # {}
  /\ \E s \in SpansNamed(CallSpanName) : ~Open(s)

\* ---- C19 ----
\* C19: dispose removes the listener and nothing else: it ends no span and
\* leaves the tracking table, the stats batch and the speaking map as they
\* are; once disposed, no step (an emitted CallsChanged included) changes the
\* table or starts or ends a call span, and the listener is never re-attached.
C19_DisposeOnlyDetaches ==
  /\ [][dispose =>
          /\ ~listening'
          /\ UNCHANGED <<spans, callsByCallId, statsReportSpan, speakingSpans,
                         callMembershipSpan, callMembershipContext>>]_vars
  /\ [][~listening =>
          /\ ~listening'
          /\ callsByCallId' = callsByCallId
          /\ \A s \in DOMAIN spans' :
               spans'[s].name = CallSpanName =>
                 s \in DOMAIN spans /\ spans'[s] = spans[s]]_vars

\* disposed with a tracked call, an open stats batch and the membership span
\* all still open
C19_Witness ==
  /\ ~listening
  /\ callsByCallId # <<>>
  /\ statsReportSpan.span # 0
  /\ \A s \in DOMAIN spans : Open(s)

\* ---- C16, C17, C18 ----
Tracked(callId) == callId \in DOMAIN callsByCallId

\* onSendEvent got a call-related event that it sends on and can flatten
CallRelated(event) ==
  /\ startsWith(Get(event, "eventType").val, "m.call")
  /\ Get(event, "type").val \in {"toDevice", "sendEvent"}
  /\ ~flattenVoipEvent(event).threw

\* the step adds one event of that name to span s and changes no other span
RecordsOn(s, name) == spans' = addEvent(spans, s, name)

\* the step leaves every field of the manager and every span as it was
MutatesNothing ==
  UNCHANGED <<revision, myMember, spans, callMembershipSpan, callMembershipContext,
              callsByCallId, statsReportSpan, speakingSpans, listening>>

\* C16: onSendEvent with a call-related event kind records the event on the
\* call span of its call identifier; for an identifier that is not tracked no
\* span receives an event and the handler returns without throwing.
C16_SendEventRoutedToCallSpan ==
  [][\A callId \in CallIds, event \in VoipEvents :
       (onSendEvent(callId, event) \/ onSendEventPlain(callId, event))
         /\ CallRelated(event)
       => /\ thrown' = NoError
          /\ IF Tracked(callId)
             THEN RecordsOn(callsByCallId[callId].span, sendEventName(event))
             ELSE MutatesNothing]_vars

\* C17: onCallStateChange and onCallError for an untracked call identifier
\* change no span and no field and do not throw; for a tracked one they record
\* the state change or the exception on that call's span and on no other.
C17_StateChangeAndErrorRouting ==
  [][\A callId \in CallIds :
       /\ onCallStateChange(callId) =>
            /\ thrown' = NoError
            /\ IF Tracked(callId)
               THEN RecordsOn(callsByCallId[callId].span, "matrix.call.stateChange")
               ELSE MutatesNothing
       /\ onCallError(callId) =>
            /\ thrown' = NoError
            /\ IF Tracked(callId)
               THEN RecordsOn(callsByCallId[callId].span, "exception")
               ELSE MutatesNothing]_vars

\* a tracked call's span holds the state change or the exception, no other
\* span holds a routed event, and the other call is not tracked
C17_Witness ==
  \E callId \in DOMAIN callsByCallId :
    /\ spans[callsByCallId[callId].span].events
         \in { <<"matrix.call.stateChange">>, <<"exception">> }
    /\ RoutedCount(spans) = 1
    /\ Cardinality(DOMAIN callsByCallId) < Cardinality(CallIds)
    /\ Joined

\* the marker event of a received event that has no tracked call
Marker(content) ==
  IF falsy(Get(content, "call_id")) THEN "matrix.receive_voip_event_no_callid"
  ELSE "matrix.receive_voip_event_unknown_callid"

\* C18: a received voip event without call identifier, or with one that is
\* not tracked, is recorded as one marker event on the membership span when
\* that span is live, and is recorded nowhere when no membership span is live;
\* it never throws.  One with a tracked identifier is recorded on that call's
\* span only.
C18_ReceivedEventRouting ==
  [][\A content \in Contents :
       onReceivedVoipEvent(content) =>
         LET callId == Get(content, "call_id")
         IN IF falsy(callId) \/ ~Tracked(callId.val)
            THEN /\ thrown' = NoError
                 /\ IF Joined THEN RecordsOn(callMembershipSpan, Marker(content))
                    ELSE MutatesNothing
            ELSE ~flattenVoipEvent(content).threw =>
                   /\ thrown' = NoError
                   /\ RecordsOn(callsByCallId[callId.val].span,
                                "matrix.receive_voip_event")]_vars

\* ---- C23 ----
\* C23: after onCallsChanged(S), every call identifier that occurs in S is in
\* the tracking table and its span is open, whatever the table held before
\* (also when a tracked identifier occurs in S under another pair).
C23_IdsOfSetAreTracked ==
  [][\A calls \in CallsByUserAndDevice :
       onCallsChanged(calls) =>
         \A callId \in IdsIn(calls) :
           /\ callId \in DOMAIN callsByCallId'
           /\ spans'[callsByCallId'[callId].span].ends = 0]_vars

\* ---- C25 ----
\* C25: a stats-batch span is completed within the membership interval that
\* opened it: once the membership span it is parented to has ended, it gets no
\* further report event and is not ended.
C25_StatsBatchWithinInterval ==
  [][\A s \in SpansNamed(StatsSpanName) :
       spans[spans[s].parent].ends > 0 => spans'[s] = spans[s]]_vars

\* ---- C22 ----
\* C22: a payload within the depth bound that holds a boolean, null,
\* undefined, array or function value is flattened without an error, and such
\* a value contributes no key: the keys of the result are the dotted paths of
\* the string/number leaves reached through records only.
C22_OtherValuesAreDropped ==
  flat # NotFlattened /\ Depth(voipEvent) <= DepthLimit =>
    /\ ~flat.threw
    /\ DOMAIN flat.flatObject =
         { Leaves(voipEvent)[i][1] : i \in DOMAIN Leaves(voipEvent) }

\* ---- C21 ----
\* flattenVoipEvent fails on the payload with the depth error
TooDeep(payload) ==
  /\ flattenVoipEvent(payload).threw
  /\ thrownBy(flattenVoipEvent(payload)) = DepthError

\* the step is one of the three flattening handlers, given a payload that
\* nests deeper than the flattener allows and a call that is tracked where
\* the handler looks it up before it flattens
DepthExceededStep ==
  \/ \E event \in RoomStateEvents :
       event # Null /\ TooDeep(Get(event, "content")) /\ onUpdateRoomState(event)
  \/ \E callId \in CallIds, event \in VoipEvents :
       /\ TooDeep(event)
       /\ (Tracked(callId) /\ onSendEvent(callId, event))
            \/ onSendEventPlain(callId, event)
  \/ \E content \in Contents :
       /\ TooDeep(content)
       /\ ~falsy(Get(content, "call_id"))
       /\ Tracked(Get(content, "call_id").val)
       /\ onReceivedVoipEvent(content)

\* C21: onUpdateRoomState, onSendEvent and onReceivedVoipEvent treat a
\* depth-exceeded payload as a failure of that one event: no error reaches the
\* caller, nothing is recorded for it and the manager is left as it was.
C21_DepthExceededIsSkipped ==
  [][DepthExceededStep => thrown' = NoError /\ MutatesNothing]_vars

\* ---- C24 ----
\* C24: no event or exception is recorded on a span after that span has been
\* ended, by any handler.
C24_NoEventAfterEnd ==
  [][\A s \in DOMAIN spans :
       spans[s].ends > 0 => spans'[s].events = spans[s].events]_vars
====
